---- MODULE Spec2Model ----
(***************************************************************************)
(* Subscription lifecycle of the skeeter-turf backend.                     *)
(*                                                                         *)
(* The state is one row of the customers table (models/user.py).  Every    *)
(* HTTP handler that touches the subscription, the webhook handler and the *)
(* monthly scheduler is one action.  A gateway call has one of three       *)
(* outcomes: the gateway acknowledges it ("ok"), the gateway answers with  *)
(* an error payload ("rejected"), or the request raises before an answer   *)
(* arrives ("timeout").  The wrappers of utils/square_client.py turn the   *)
(* outcome into the dictionary the handlers test.                          *)
(*                                                                         *)
(* Each customer's lifecycle is independent of every other customer's      *)
(* (each handler reads and writes the row of one customer, and the         *)
(* scheduler's inner loop body touches only the customer it is visiting),  *)
(* so the model follows one customer.                                      *)
(*                                                                         *)
(* `last` is a history variable: it records the most recent operation,     *)
(* the row before it, the gateway calls it made and what it reported.      *)
(* `pause_origin` is a history variable: who issued the most recent pause  *)
(* the gateway acknowledged.                                               *)
(***************************************************************************)
EXTENDS Integers, Sequences, FiniteSets, TLC

(***************************************************************************)
(* Bounds of the model.                                                    *)
(***************************************************************************)
\* failed_payment_attempts is not incremented beyond this value
MaxFailed == 3
\* number of remote subscriptions created for the customer
MaxSubs == 2

(***************************************************************************)
(* Program constants.                                                      *)
(***************************************************************************)
\* webhooks.py: `if customer.failed_payment_attempts >= 3`
SuspendThreshold == 3

Months == 1..12

\* Months in which the scheduler is run: one of each combination of active
\* schedules the seeded data has (February: turf and ground control;
\* July: turf and mosquito; December: none).
RunMonths == {2, 7, 12}

\* Outcomes of one request to the gateway.
Outcomes == {"ok", "rejected", "timeout"}

\* NULL of a nullable string column
None == "none"

(***************************************************************************)
(* Seeded data.                                                            *)
(***************************************************************************)
\* db/init.py seed_db: the three plan schedules, in insertion (id) order.
plan_schedules ==
  << [plan_name |-> "turf", start_month |-> 1, end_month |-> 11],
     [plan_name |-> "mosquito", start_month |-> 3, end_month |-> 11],
     [plan_name |-> "ground control", start_month |-> 1, end_month |-> 2] >>

\* subscription_plans rows: plan variation id -> lower-cased words of the
\* plan name ("Monthly Turf Package", "Combo Mosquito / Turf Package").
SubscriptionPlan ==
  [ PV_TURF  |-> {"monthly", "turf", "package"},
    PV_COMBO |-> {"combo", "mosquito", "turf", "package"} ]

PlanVariationIds == DOMAIN SubscriptionPlan

\* item_variations rows of type ADDON: variation id -> billing type.
ItemVariation == [ AD_REC |-> "RECURRING", AD_ONE |-> "ONE_TIME" ]

AddonIds == DOMAIN ItemVariation

\* The add-on lists a request carries: none, or a recurring and a one-time one.
RequestAddons == { {}, {"AD_REC", "AD_ONE"} }

VARIABLES
  customer,        \* the customers row
  pause_origin,    \* history: "manual" or "schedule" once a pause succeeded
  last,            \* history: the most recent operation
  handlers,        \* handlers in flight on the row, each with the row it loaded
  charges,         \* one-time charge requests of one logical attempt
  calc             \* a pure function, its arguments and its result

vars == <<customer, pause_origin, last, handlers, charges, calc>>

\* Values of the variables a specification does not use.
NoHandlers == <<>>

NoCharges == [handler |-> "none"]

NoCalc == [fn |-> "none"]

(***************************************************************************)
(* models/subscription_schedule.py                                         *)
(***************************************************************************)
\* Variant: no wrap-around.
is_month_active_no_wrap(schedule, month) ==
  schedule.start_month <= month /\ month <= schedule.end_month

is_month_active(schedule, month) ==
  IF schedule.start_month <= schedule.end_month
    THEN schedule.start_month <= month /\ month <= schedule.end_month
    ELSE month >= schedule.start_month \/ month <= schedule.end_month

(***************************************************************************)
(* utils/square_client.py: what each wrapper returns for an outcome.       *)
(***************************************************************************)
\* A result is modelled by what a caller can test in it: errors is
\* `"errors" in res`, item the keys of res["errors"][0], success is
\* res.get("success"), error the kind of value under "error".  The wording
\* of a message is not modelled.

\* The answer of the gateway (response.json()) that rejects a request holds
\* errors with category, code and detail; the dictionary built when the
\* request raises holds errors with a detail only.
errors_answer(o) ==
  [errors |-> o # "ok",
   item |-> IF o = "rejected" THEN {"category", "code", "detail"}
            ELSE IF o = "timeout" THEN {"detail"}
            ELSE {}]

\* {"success": True, ...} iff the answer holds a subscription; otherwise
\* {"success": False, "error": str(...)}, of the answer's errors or of the
\* exception
success_answer(o) ==
  [success |-> o = "ok", error |-> IF o = "ok" THEN None ELSE "str"]

\* Variant: a request that raises is not turned into an errors answer.
pause_subscription_uncaught(o) == [errors |-> o = "rejected", item |-> {}]

\* returns response.json(), or {"errors": [...]} when the request raises
pause_subscription(o) == errors_answer(o)

resume_subscription(o) == errors_answer(o)

\* Variant: the answer never holds errors.
process_payment_unchecked(o) == [errors |-> FALSE, item |-> {}]

process_payment(o) == errors_answer(o)

cancel_subscription(o) == success_answer(o)

create_subscription(o) == success_answer(o)

update_subscription(o) == success_answer(o)

\* not part of the available square_client.py; callers test "success"
create_order(o) == [success |-> o = "ok"]

(***************************************************************************)
(* History records.                                                        *)
(***************************************************************************)
\* The four fields that describe the subscription of a row.
SubState(row) ==
  << row.subscription_status, row.subscription_active,
     row.subscription_paused_by_schedule, row.square_subscription_id >>

\* One gateway call: its kind, the subscription it names, its outcome, the
\* row when the call was made (pre) and the row once the caller has reacted
\* to the answer (post), whether the caller wrote a SubscriptionLog row in
\* reaction, and whether it reported an error to its own caller.
Call(kind, sub, o, pre, post, logged, surfaced) ==
  [kind |-> kind, sub |-> sub, outcome |-> o, pre |-> SubState(pre),
   post |-> SubState(post), logged |-> logged, surfaced |-> surfaced]

NoRequest == [plan |-> None, addons |-> {}]

\* What a scheduler run reports; repeat: the operation before it was a run of
\* the same month that was no dry run and reported no error.
\* resumed_manual: the run resumed a pause whose origin was "manual".
NoRun == [month |-> 0, dry_run |-> FALSE, paused |-> 0, resumed |-> 0, errors |-> 0,
          resumed_manual |-> FALSE, repeat |-> FALSE]

\* result: "ok" (the handler returned normally) or "error" (HTTPException)
Record(op, result, calls, logged, request, one_time_orders, run) ==
  [op |-> op, result |-> result, calls |-> calls,
   logged |-> logged, before |-> customer, request |-> request,
   one_time_orders |-> one_time_orders, run |-> run]

Done(op, result, calls, logged) ==
  last' = Record(op, result, calls, logged, NoRequest, 0, NoRun)

(***************************************************************************)
(* Initial state: the row routers/auth.py signup inserts, once             *)
(* routers/payment.py validate_card has stored the Square customer id.     *)
(***************************************************************************)
Init ==
  /\ \E pv \in PlanVariationIds :
       customer = [ square_customer_id |-> TRUE,
                    square_subscription_id |-> 0,
                    subscription_active |-> FALSE,
                    subscription_status |-> None,
                    plan_id |-> pv,
                    plan_variation_id |-> pv,
                    selected_addons |-> {},
                    failed_payment_attempts |-> 0,
                    subscription_paused_by_schedule |-> FALSE ]
  /\ pause_origin = "none"
  /\ last = [op |-> "signup", result |-> "ok", calls |-> <<>>,
             logged |-> 0, before |-> customer, request |-> NoRequest,
             one_time_orders |-> 0, run |-> NoRun]
  /\ handlers = NoHandlers
  /\ charges = NoCharges
  /\ calc = NoCalc

(***************************************************************************)
(* routers/webhooks.py square_webhook                                      *)
(***************************************************************************)
\* Variant: suspends one failure early.
should_suspend_early(attempts) == attempts >= SuspendThreshold - 1

\* Variant: suspends one failure late.
should_suspend_late(attempts) == attempts > SuspendThreshold

\* `if customer.failed_payment_attempts >= 3`, on the incremented counter
should_suspend(attempts) == attempts >= SuspendThreshold

\* The row the invoice.payment_failed branch commits.
payment_failed_row(row) ==
  LET n == row.failed_payment_attempts + 1
  IN IF should_suspend(n)
       THEN [row EXCEPT !.failed_payment_attempts = n,
                        !.subscription_status = "SUSPENDED",
                        !.subscription_active = FALSE]
       ELSE [row EXCEPT !.failed_payment_attempts = n]

\* event type invoice.payment_failed
square_webhook_payment_failed ==
  /\ UNCHANGED <<handlers, charges, calc>>
  /\ customer.square_customer_id
  /\ customer.failed_payment_attempts < MaxFailed
  /\ customer' = payment_failed_row(customer)
  /\ Done("payment_failed", "ok", <<>>,
          IF should_suspend(customer.failed_payment_attempts + 1) THEN 1 ELSE 0)
  /\ UNCHANGED pause_origin

\* Variant: resets the counter and leaves the status alone.
payment_succeeded_row_count_only(row) == [row EXCEPT !.failed_payment_attempts = 0]

\* The row the invoice.payment_succeeded branch commits.
payment_succeeded_row(row) ==
  IF row.failed_payment_attempts > 0
    THEN IF row.subscription_status = "SUSPENDED"
           THEN [row EXCEPT !.failed_payment_attempts = 0,
                            !.subscription_status = "ACTIVE",
                            !.subscription_active = TRUE]
           ELSE [row EXCEPT !.failed_payment_attempts = 0]
    ELSE row

\* event type invoice.payment_succeeded
square_webhook_payment_succeeded ==
  /\ UNCHANGED <<handlers, charges, calc>>
  /\ customer.square_customer_id
  /\ customer' = payment_succeeded_row(customer)
  /\ Done("payment_succeeded", "ok", <<>>, 0)
  /\ UNCHANGED pause_origin

(***************************************************************************)
(* routers/payment.py: the customer's own endpoints                        *)
(***************************************************************************)
pause_sub ==
  /\ UNCHANGED <<handlers, charges, calc>>
  /\ \E o \in Outcomes :
    IF customer.square_subscription_id = 0
      THEN /\ UNCHANGED <<customer, pause_origin>>
           /\ Done("pause_sub", "error", <<>>, 0)
      ELSE LET res == pause_subscription(o)
               row == IF res.errors THEN customer
                      ELSE [customer EXCEPT !.subscription_status = "PAUSED"]
               logged == IF res.errors THEN 0 ELSE 1
           IN /\ customer' = row
              /\ pause_origin' = IF res.errors THEN pause_origin ELSE "manual"
              /\ Done("pause_sub", IF res.errors THEN "error" ELSE "ok",
                      << Call("pause", customer.square_subscription_id, o,
                              customer, row, logged, res.errors) >>, logged)

resume_sub ==
  /\ UNCHANGED <<handlers, charges, calc>>
  /\ \E o \in Outcomes :
    IF customer.square_subscription_id = 0
      THEN /\ UNCHANGED <<customer, pause_origin>>
           /\ Done("resume_sub", "error", <<>>, 0)
      ELSE LET res == resume_subscription(o)
               row == IF res.errors THEN customer
                      ELSE [customer EXCEPT !.subscription_status = "ACTIVE"]
               logged == IF res.errors THEN 0 ELSE 1
           IN /\ customer' = row
              /\ UNCHANGED pause_origin
              /\ Done("resume_sub", IF res.errors THEN "error" ELSE "ok",
                      << Call("resume", customer.square_subscription_id, o,
                              customer, row, logged, res.errors) >>, logged)

cancel_sub ==
  /\ UNCHANGED <<handlers, charges, calc>>
  /\ \E o \in Outcomes :
    IF customer.square_subscription_id = 0
      THEN /\ UNCHANGED <<customer, pause_origin>>
           /\ Done("cancel_sub", "error", <<>>, 0)
      ELSE LET res == cancel_subscription(o)
               row == IF res.success
                        THEN [customer EXCEPT !.subscription_active = FALSE,
                                              !.subscription_status = "CANCELED"]
                        ELSE customer
               logged == IF res.success THEN 1 ELSE 0
           IN /\ customer' = row
              /\ UNCHANGED pause_origin
              /\ Done("cancel_sub", IF res.success THEN "ok" ELSE "error",
                      << Call("cancel", customer.square_subscription_id, o,
                              customer, row, logged, ~res.success) >>, logged)

\* Swaps the plan at the gateway; writes nothing to the row.
change_plan ==
  /\ UNCHANGED <<handlers, charges, calc>>
  /\ \E new_plan_variation_id \in PlanVariationIds, o \in Outcomes :
    /\ IF customer.square_subscription_id = 0
         THEN Done("change_plan", "error", <<>>, 0)
         ELSE LET res == update_subscription(o)
              IN last' = Record("change_plan", IF res.success THEN "ok" ELSE "error",
                           << Call("update_subscription", customer.square_subscription_id,
                                   o, customer, customer, 0, ~res.success) >>, 0,
                           IF res.success
                             THEN [plan |-> new_plan_variation_id, addons |-> {}]
                             ELSE NoRequest, 0, NoRun)
    /\ UNCHANGED <<customer, pause_origin>>

(***************************************************************************)
(* utils/subscription_logic.py                                             *)
(***************************************************************************)
\* Fails when the plan variation is not in subscription_plans.
prepare_subscription_order_items(plan_variation_id, addons) ==
  [success |-> plan_variation_id \in PlanVariationIds]

\* Plan variation ids a request can carry: the known ones and an unknown one.
RequestPlans == PlanVariationIds \cup {"PV_UNKNOWN"}

\* The add-ons of a request by billing type, as both handlers split them.
one_time_addons(addons) == {a \in addons : ItemVariation[a] = "ONE_TIME"}

recurring_addon_ids(addons) == {a \in addons : ItemVariation[a] # "ONE_TIME"}

\* The id the gateway gives the subscription it creates: one no earlier
\* subscription of the customer has.
NewSubscriptionId == customer.square_subscription_id + 1

\* Outcomes to consider for a call: all of them if the call is made.
OutcomesIf(made) == IF made THEN Outcomes ELSE {"ok"}

(***************************************************************************)
(* routers/payment.py activate_sub                                         *)
(***************************************************************************)
activate_sub ==
  /\ UNCHANGED <<handlers, charges, calc>>
  /\ \E plan_variation_id \in RequestPlans, addons \in RequestAddons :
    LET charging == one_time_addons(addons) # {}
        order_data == prepare_subscription_order_items(plan_variation_id,
                                                       recurring_addon_ids(addons))
    IN
    \E oc \in OutcomesIf(customer.square_customer_id /\ charging) :
    \E oo \in OutcomesIf(customer.square_customer_id /\ oc = "ok" /\ order_data.success) :
    \E os \in OutcomesIf(customer.square_customer_id /\ oc = "ok" /\ order_data.success
                         /\ oo = "ok") :
    LET request == [plan |-> plan_variation_id, addons |-> addons]
        charge == IF charging
                    THEN << Call("charge", 0, oc, customer, customer, 0,
                                 process_payment(oc).errors) >>
                    ELSE <<>>
        charged == IF charging /\ ~process_payment(oc).errors THEN 1 ELSE 0
        order == << Call("create_order", 0, oo, customer, customer, 0,
                         ~create_order(oo).success) >>
        res == create_subscription(os)
        row == IF res.success
                 THEN [customer EXCEPT !.square_subscription_id = NewSubscriptionId,
                                       !.subscription_active = TRUE,
                                       !.subscription_status = "ACTIVE",
                                       !.selected_addons = addons]
                 ELSE customer
        logged == IF res.success THEN 1 ELSE 0
        create == << Call("create_subscription", 0, os, customer, row, logged,
                          ~res.success) >>
        Fail(calls, orders) ==
          /\ UNCHANGED customer
          /\ last' = Record("activate_sub", "error", calls, 0, NoRequest, orders, NoRun)
    IN /\ IF ~customer.square_customer_id THEN Fail(<<>>, 0)
          ELSE IF charging /\ process_payment(oc).errors THEN Fail(charge, 0)
          ELSE IF ~order_data.success THEN Fail(charge, charged)
          ELSE IF ~create_order(oo).success THEN Fail(charge \o order, charged)
          ELSE IF ~res.success THEN Fail(charge \o order \o create, charged)
          ELSE /\ customer.square_subscription_id < MaxSubs
               /\ customer' = row
               /\ last' = Record("activate_sub", "ok", charge \o order \o create,
                                 1, request, charged, NoRun)
       /\ UNCHANGED pause_origin

(***************************************************************************)
(* routers/admin.py                                                        *)
(***************************************************************************)
\* Writes no SubscriptionLog row.
cancel_customer_subscription ==
  /\ UNCHANGED <<handlers, charges, calc>>
  /\ \E o \in Outcomes :
    IF customer.square_subscription_id = 0
      THEN /\ UNCHANGED <<customer, pause_origin>>
           /\ Done("cancel_customer_subscription", "error", <<>>, 0)
      ELSE LET res == cancel_subscription(o)
               row == IF res.success
                        THEN [customer EXCEPT !.subscription_active = FALSE,
                                              !.subscription_status = "CANCELED"]
                        ELSE customer
           IN /\ customer' = row
              /\ UNCHANGED pause_origin
              /\ Done("cancel_customer_subscription",
                      IF res.success THEN "ok" ELSE "error",
                      << Call("cancel", customer.square_subscription_id, o,
                              customer, row, 0, ~res.success) >>, 0)

resume_customer_subscription ==
  /\ UNCHANGED <<handlers, charges, calc>>
  /\ \E o \in Outcomes :
    IF customer.square_subscription_id = 0
      THEN /\ UNCHANGED <<customer, pause_origin>>
           /\ Done("resume_customer_subscription", "error", <<>>, 0)
      ELSE LET res == resume_subscription(o)
               row == IF res.errors THEN customer
                      ELSE [customer EXCEPT !.subscription_status = "ACTIVE",
                                            !.subscription_active = TRUE]
               logged == IF res.errors THEN 0 ELSE 1
           IN /\ customer' = row
              /\ UNCHANGED pause_origin
              /\ Done("resume_customer_subscription",
                      IF res.errors THEN "error" ELSE "ok",
                      << Call("resume", customer.square_subscription_id, o,
                              customer, row, logged, res.errors) >>, logged)

pause_customer_subscription ==
  /\ UNCHANGED <<handlers, charges, calc>>
  /\ \E o \in Outcomes :
    IF customer.square_subscription_id = 0
      THEN /\ UNCHANGED <<customer, pause_origin>>
           /\ Done("pause_customer_subscription", "error", <<>>, 0)
      ELSE LET res == pause_subscription(o)
               row == IF res.errors THEN customer
                      ELSE [customer EXCEPT !.subscription_status = "PAUSED"]
               logged == IF res.errors THEN 0 ELSE 1
           IN /\ customer' = row
              /\ pause_origin' = IF res.errors THEN pause_origin ELSE "manual"
              /\ Done("pause_customer_subscription",
                      IF res.errors THEN "error" ELSE "ok",
                      << Call("pause", customer.square_subscription_id, o,
                              customer, row, logged, res.errors) >>, logged)

\* default_card: whether the PaymentMethod query finds a default card.
admin_change_subscription ==
  /\ UNCHANGED <<handlers, charges, calc>>
  /\ \E new_plan_variation_id \in RequestPlans, addons \in RequestAddons,
     default_card \in BOOLEAN :
    LET charging == one_time_addons(addons) # {}
        order_data == prepare_subscription_order_items(new_plan_variation_id,
                                                       recurring_addon_ids(addons))
        existing == customer.square_subscription_id # 0
    IN
    \E oc \in OutcomesIf(charging /\ default_card) :
    \E oo \in OutcomesIf((charging => default_card) /\ oc = "ok" /\ order_data.success) :
    \E os \in OutcomesIf((charging => default_card) /\ oc = "ok" /\ order_data.success
                         /\ oo = "ok" /\ (existing \/ default_card)) :
    LET request == [plan |-> new_plan_variation_id, addons |-> addons]
        charge == IF charging
                    THEN << Call("charge", 0, oc, customer, customer, 0,
                                 process_payment(oc).errors) >>
                    ELSE <<>>
        charged == IF charging /\ ~process_payment(oc).errors THEN 1 ELSE 0
        order == << Call("create_order", 0, oo, customer, customer, 0,
                         ~create_order(oo).success) >>
        res == IF existing THEN update_subscription(os) ELSE create_subscription(os)
        stored == [customer EXCEPT !.plan_id = new_plan_variation_id,
                                   !.plan_variation_id = new_plan_variation_id,
                                   !.selected_addons = recurring_addon_ids(addons)]
        row == IF ~res.success THEN customer
               ELSE IF existing THEN stored
               ELSE [stored EXCEPT !.square_subscription_id = NewSubscriptionId,
                                   !.subscription_active = TRUE,
                                   !.subscription_status = "ACTIVE"]
        logged == IF res.success THEN 1 ELSE 0
        subscribe == << Call(IF existing THEN "update_subscription"
                                         ELSE "create_subscription",
                             customer.square_subscription_id, os, customer, row,
                             logged, ~res.success) >>
        Fail(calls, orders) ==
          /\ UNCHANGED customer
          /\ last' = Record("admin_change_subscription", "error", calls, 0,
                            NoRequest, orders, NoRun)
    IN /\ IF charging /\ ~default_card THEN Fail(<<>>, 0)
          ELSE IF charging /\ process_payment(oc).errors THEN Fail(charge, 0)
          ELSE IF ~order_data.success THEN Fail(charge, charged)
          ELSE IF ~create_order(oo).success THEN Fail(charge \o order, charged)
          ELSE IF ~existing /\ ~default_card THEN Fail(charge \o order, charged)
          ELSE IF ~res.success THEN Fail(charge \o order \o subscribe, charged)
          ELSE /\ existing \/ customer.square_subscription_id < MaxSubs
               /\ customer' = row
               /\ last' = Record("admin_change_subscription", "ok",
                                 charge \o order \o subscribe, 1, request,
                                 charged, NoRun)
       /\ UNCHANGED pause_origin

\* default_card: whether any PaymentMethod row of the customer is found.
activate_stored_subscription ==
  /\ UNCHANGED <<handlers, charges, calc>>
  /\ \E default_card \in BOOLEAN :
    LET order_data ==
          prepare_subscription_order_items(customer.plan_variation_id,
                                           recurring_addon_ids(customer.selected_addons))
        rejected == \/ customer.subscription_active
                       /\ customer.subscription_status = "ACTIVE"
                    \/ customer.plan_variation_id = None
                    \/ ~customer.square_customer_id
                    \/ ~default_card
                    \/ ~order_data.success
    IN
    \E oo \in OutcomesIf(~rejected) :
    \E os \in OutcomesIf(~rejected /\ oo = "ok") :
    LET order == << Call("create_order", 0, oo, customer, customer, 0,
                         ~create_order(oo).success) >>
        res == create_subscription(os)
        row == IF res.success
                 THEN [customer EXCEPT !.square_subscription_id = NewSubscriptionId,
                                       !.subscription_active = TRUE,
                                       !.subscription_status = "ACTIVE"]
                 ELSE customer
        logged == IF res.success THEN 1 ELSE 0
        create == << Call("create_subscription", 0, os, customer, row, logged,
                          ~res.success) >>
        Fail(calls) ==
          /\ UNCHANGED customer
          /\ Done("activate_stored_subscription", "error", calls, 0)
    IN /\ IF rejected THEN Fail(<<>>)
          ELSE IF ~create_order(oo).success THEN Fail(order)
          ELSE IF ~res.success THEN Fail(order \o create)
          ELSE /\ customer.square_subscription_id < MaxSubs
               /\ customer' = row
               /\ Done("activate_stored_subscription", "ok", order \o create, 1)
       /\ UNCHANGED pause_origin

(***************************************************************************)
(* utils/subscription_scheduler.py                                         *)
(***************************************************************************)
\* `schedule.plan_name.lower() in customer_plan.lower()`, on the words of
\* the customer's plan name
plan_matches(schedule, row) ==
  /\ row.plan_id \in DOMAIN SubscriptionPlan
  /\ schedule.plan_name \in SubscriptionPlan[row.plan_id]

\* The body of the customer loop for one schedule: acc is the row and the
\* results so far, o the outcome of the gateway call if one is made.
process_customer(acc, schedule, month, dry_run, o) ==
  LET row == acc.row
      plan_active == is_month_active(schedule, month)
      sub == row.square_subscription_id
  IN IF sub = 0 \/ ~plan_matches(schedule, row) THEN acc
     ELSE IF ~plan_active /\ row.subscription_status = "ACTIVE"
       THEN IF dry_run THEN [acc EXCEPT !.paused = @ + 1]
            ELSE IF ~pause_subscription(o).errors
              THEN LET new == [row EXCEPT !.subscription_status = "PAUSED",
                                          !.subscription_paused_by_schedule = TRUE]
                   IN [acc EXCEPT !.row = new, !.paused = @ + 1, !.origin = "schedule",
                         !.calls = Append(@, Call("pause", sub, o, row, new, 0, FALSE))]
              ELSE [acc EXCEPT !.errors = @ + 1,
                      !.calls = Append(@, Call("pause", sub, o, row, row, 0, TRUE))]
     ELSE IF plan_active /\ row.subscription_status = "PAUSED"
             /\ row.subscription_paused_by_schedule
       THEN IF dry_run THEN [acc EXCEPT !.resumed = @ + 1]
            ELSE IF ~resume_subscription(o).errors
              THEN LET new == [row EXCEPT !.subscription_status = "ACTIVE",
                                          !.subscription_paused_by_schedule = FALSE]
                   IN [acc EXCEPT !.row = new, !.resumed = @ + 1,
                         !.resumed_manual = @ \/ acc.origin = "manual",
                         !.calls = Append(@, Call("resume", sub, o, row, new, 0, FALSE))]
              ELSE [acc EXCEPT !.errors = @ + 1,
                      !.calls = Append(@, Call("resume", sub, o, row, row, 0, TRUE))]
     ELSE acc

\* The schedule loop from schedule i on; outs[i] is the outcome of the
\* gateway call made while schedule i is processed.
RECURSIVE schedule_loop(_, _, _, _, _)
schedule_loop(acc, i, month, dry_run, outs) ==
  IF i > Len(plan_schedules) THEN acc
  ELSE schedule_loop(process_customer(acc, plan_schedules[i], month, dry_run, outs[i]),
                     i + 1, month, dry_run, outs)

\* One run of the monthly job; month is datetime.now().month.
process_monthly_subscription_schedules ==
  /\ UNCHANGED <<handlers, charges, calc>>
  /\ \E month \in RunMonths, dry_run \in BOOLEAN,
     outs \in [1..Len(plan_schedules) -> Outcomes] :
    /\ \A i \in 1..Len(plan_schedules) :
         (dry_run \/ ~plan_matches(plan_schedules[i], customer)) => outs[i] = "ok"
    /\ LET results == schedule_loop([row |-> customer, paused |-> 0, resumed |-> 0,
                                     errors |-> 0, calls |-> <<>>,
                                     origin |-> pause_origin,
                                     resumed_manual |-> FALSE],
                                    1, month, dry_run, outs)
       IN /\ customer' = results.row
          /\ pause_origin' = results.origin
          /\ last' = Record("scheduler", IF results.errors = 0 THEN "ok" ELSE "error",
                            results.calls, 0, NoRequest, 0,
                            [month |-> month, dry_run |-> dry_run,
                             paused |-> results.paused, resumed |-> results.resumed,
                             errors |-> results.errors,
                             resumed_manual |-> results.resumed_manual,
                             repeat |-> /\ last.op = "scheduler"
                                        /\ last.run.month = month
                                        /\ ~last.run.dry_run
                                        /\ last.run.errors = 0])

Next ==
  \/ square_webhook_payment_failed
  \/ square_webhook_payment_succeeded
  \/ pause_sub
  \/ resume_sub
  \/ cancel_sub
  \/ change_plan
  \/ activate_sub
  \/ cancel_customer_subscription
  \/ resume_customer_subscription
  \/ pause_customer_subscription
  \/ admin_change_subscription
  \/ activate_stored_subscription
  \/ process_monthly_subscription_schedules

Spec == Init /\ [][Next]_vars

(***************************************************************************)
(* Properties.                                                             *)
(***************************************************************************)

\* C1: a payment-failed webhook adds one to failed_payment_attempts; the
\* customer is SUSPENDED with subscription_active false exactly when the
\* counter has reached 3, and below 3 nothing but the counter has changed.
C1_ThreeStrikes ==
  last.op = "payment_failed" =>
    LET k == customer.failed_payment_attempts
    IN /\ k = last.before.failed_payment_attempts + 1
       /\ (customer.subscription_status = "SUSPENDED" /\ ~customer.subscription_active)
            <=> k >= 3
       /\ k < 3 => customer = [last.before EXCEPT !.failed_payment_attempts = k]

\* The third failure in a row has suspended an ACTIVE customer.
C1_Witness ==
  /\ last.op = "payment_failed"
  /\ customer.failed_payment_attempts = 3
  /\ last.before.subscription_status = "ACTIVE"
  /\ last.before.subscription_active
  /\ customer.subscription_status = "SUSPENDED"
  /\ ~customer.subscription_active

C3_SchedulerLeavesManualPause ==
  ~(last.op = "scheduler" /\ last.run.resumed_manual)

C5_AllOrNothing ==
  last.op \in {"activate_sub", "admin_change_subscription"} =>
    LET failed == {i \in 1..Len(last.calls) : last.calls[i].outcome # "ok"}
        charge_made == Len(last.calls) > 0 /\ last.calls[1].kind = "charge"
    IN /\ customer # last.before => failed = {} /\ last.result = "ok"
       /\ last.result = "error" => customer = last.before
       /\ \A i \in failed :
            /\ i = Len(last.calls)
            /\ last.result = "error"
            /\ IF last.calls[i].kind = "charge"
                 THEN i = 1 /\ last.one_time_orders = 0
                 ELSE last.one_time_orders = (IF charge_made THEN 1 ELSE 0)

\* The admin's change charged a one-time add-on, then the update of the
\* subscription timed out.
C5_Witness ==
  /\ last.op = "admin_change_subscription"
  /\ last.result = "error"
  /\ last.one_time_orders = 1
  /\ Len(last.calls) = 3
  /\ last.calls[3].kind = "update_subscription"
  /\ last.calls[3].outcome = "timeout"
  /\ customer = last.before

\* C6: a scheduler run that directly follows a run of the same month makes
\* no gateway call and changes no row.
C6_SchedulerIdempotent ==
  (last.op = "scheduler" /\ last.run.repeat /\ ~last.run.dry_run) =>
    /\ last.calls = <<>>
    /\ customer = last.before

\* C7: only a payment-succeeded webhook takes a customer out of SUSPENDED,
\* and it leaves the customer ACTIVE.
C7_OnlyPaymentLeavesSuspended ==
  (/\ last.before.subscription_status = "SUSPENDED"
   /\ customer.subscription_status # "SUSPENDED")
  => /\ last.op = "payment_succeeded"
     /\ customer.subscription_status = "ACTIVE"

\* C8: no operation moves a CANCELED customer to another status, except an
\* activation that stores a new subscription id.
C8_CanceledTerminal ==
  (/\ last.before.subscription_status = "CANCELED"
   /\ customer.subscription_status # "CANCELED")
  => /\ last.op \in {"activate_sub", "activate_stored_subscription"}
     /\ customer.square_subscription_id # last.before.square_subscription_id

\* C9: an activation of an ACTIVE or SUSPENDED customer is rejected and
\* changes nothing.
C9_ActivationGuard ==
  (/\ last.op \in {"activate_sub", "activate_stored_subscription"}
   /\ last.before.subscription_status \in {"ACTIVE", "SUSPENDED"})
  => /\ last.result = "error"
     /\ customer = last.before

\* C10: a manual pause from a status other than ACTIVE, a manual resume
\* from a status other than PAUSED and a cancel from a status other than
\* ACTIVE or PAUSED are rejected with no gateway call and no row change.
C10_ManualGuards ==
  (\/ /\ last.op \in {"pause_sub", "pause_customer_subscription"}
      /\ last.before.subscription_status # "ACTIVE"
   \/ /\ last.op \in {"resume_sub", "resume_customer_subscription"}
      /\ last.before.subscription_status # "PAUSED"
   \/ /\ last.op \in {"cancel_sub", "cancel_customer_subscription"}
      /\ last.before.subscription_status \notin {"ACTIVE", "PAUSED"})
  => /\ last.result = "error"
     /\ last.calls = <<>>
     /\ customer = last.before

\* C11: subscription_paused_by_schedule tells the origin of the current
\* pause: it is false after a manual pause the gateway acknowledged and
\* after every resume the gateway acknowledged, true after a pause by the
\* scheduler, and whenever it is true the status is PAUSED.
C11_FlagTellsPauseOrigin ==
  /\ customer.subscription_paused_by_schedule
       => customer.subscription_status = "PAUSED"
  /\ (/\ last.op \in {"pause_sub", "pause_customer_subscription",
                      "resume_sub", "resume_customer_subscription"}
      /\ last.result = "ok")
       => ~customer.subscription_paused_by_schedule
  /\ (/\ last.op = "scheduler"
      /\ last.calls # <<>>
      /\ last.calls[Len(last.calls)].outcome = "ok")
       => (customer.subscription_paused_by_schedule
            <=> last.calls[Len(last.calls)].kind = "pause")

\* C12: after a scheduler run that is no dry run and in which every gateway
\* call succeeded, for every schedule of the customer's plan: a customer who
\* was ACTIVE while the schedule is inactive in the month is PAUSED with
\* subscription_paused_by_schedule true; a customer who was PAUSED with the
\* flag true while the schedule is active is ACTIVE with the flag false; no
\* customer is left ACTIVE under a schedule that is inactive in the month.
C12_SchedulerPostcondition ==
  (/\ last.op = "scheduler"
   /\ ~last.run.dry_run
   /\ last.run.errors = 0
   /\ last.before.square_subscription_id # 0)
  => \A i \in 1..Len(plan_schedules) :
       plan_matches(plan_schedules[i], last.before) =>
         LET plan_active == is_month_active(plan_schedules[i], last.run.month)
         IN /\ (~plan_active /\ last.before.subscription_status = "ACTIVE")
                 => /\ customer.subscription_status = "PAUSED"
                    /\ customer.subscription_paused_by_schedule
            /\ (/\ plan_active
                /\ last.before.subscription_status = "PAUSED"
                /\ last.before.subscription_paused_by_schedule)
                 => /\ customer.subscription_status = "ACTIVE"
                    /\ ~customer.subscription_paused_by_schedule
            /\ ~plan_active => customer.subscription_status # "ACTIVE"

\* C13: a dry run of the scheduler makes no gateway call and leaves the
\* row as it was, and its paused and resumed lists name the customer exactly
\* when the run that is no dry run, with every gateway call acknowledged,
\* would pause or resume the customer.
C13_DryRunReportsRealRun ==
  (last.op = "scheduler" /\ last.run.dry_run) =>
    LET real == schedule_loop([row |-> last.before, paused |-> 0, resumed |-> 0,
                               errors |-> 0, calls |-> <<>>,
                               origin |-> pause_origin,
                               resumed_manual |-> FALSE],
                              1, last.run.month, FALSE,
                              [i \in 1..Len(plan_schedules) |-> "ok"])
    IN /\ last.calls = <<>>
       /\ customer = last.before
       /\ (last.run.paused > 0) <=> (real.paused > 0)
       /\ (last.run.resumed > 0) <=> (real.resumed > 0)

\* C14: an operation that changes subscription_status writes exactly one
\* SubscriptionLog row and an operation that leaves the status as it was
\* writes none.
C14_OneLogPerStatusChange ==
  last.op # "signup" =>
    last.logged = (IF customer.subscription_status # last.before.subscription_status
                     THEN 1 ELSE 0)

(***************************************************************************)
(* Handlers in flight on the same row.                                     *)
(*                                                                         *)
(* A handler loads the row through its own session, decides on what it     *)
(* loaded, and commits; the scheduler is a process of its own              *)
(* (scripts/run_subscription_scheduler.py).  No query locks the row, so    *)
(* the load and the commit of one handler are two steps and those of       *)
(* another handler may fall between them.  The customer is on the turf     *)
(* plan, which matches the first schedule only.                            *)
(***************************************************************************)
\* Rows the handlers start from: a subscribed customer who is ACTIVE, was
\* PAUSED by the scheduler, or is SUSPENDED.
HandlerRows ==
  LET row == [ square_customer_id |-> TRUE,
               square_subscription_id |-> 1,
               subscription_active |-> TRUE,
               subscription_status |-> "ACTIVE",
               plan_id |-> "PV_TURF",
               plan_variation_id |-> "PV_TURF",
               selected_addons |-> {},
               failed_payment_attempts |-> 0,
               subscription_paused_by_schedule |-> FALSE ]
  IN {[row EXCEPT !.failed_payment_attempts = n] : n \in 0..(SuspendThreshold - 1)}
     \cup {[row EXCEPT !.failed_payment_attempts = n,
                       !.subscription_status = "PAUSED",
                       !.subscription_paused_by_schedule = TRUE] :
             n \in 0..(SuspendThreshold - 1)}
     \cup {[row EXCEPT !.failed_payment_attempts = SuspendThreshold,
                       !.subscription_status = "SUSPENDED",
                       !.subscription_active = FALSE]}

\* A handler about to start: its kind, the month (scheduler) and the outcome
\* of the gateway call it makes (scheduler, pause_sub, resume_sub).
HandlerStarts ==
  {[kind |-> k, pc |-> "start", row |-> None, month |-> 0, o |-> "ok"] :
     k \in {"payment_failed", "payment_succeeded"}}
  \cup {[kind |-> k, pc |-> "start", row |-> None, month |-> 0, o |-> o] :
          k \in {"pause_sub", "resume_sub"}, o \in Outcomes}
  \cup {[kind |-> "scheduler", pc |-> "start", row |-> None, month |-> m, o |-> o] :
          m \in RunMonths, o \in Outcomes}

\* The row a handler holds when it commits, from the row it loaded.
handler_row(h, row) ==
  CASE h.kind = "payment_failed" -> payment_failed_row(row)
    [] h.kind = "payment_succeeded" -> payment_succeeded_row(row)
    [] h.kind = "pause_sub" ->
         IF pause_subscription(h.o).errors THEN row
         ELSE [row EXCEPT !.subscription_status = "PAUSED"]
    [] h.kind = "resume_sub" ->
         IF resume_subscription(h.o).errors THEN row
         ELSE [row EXCEPT !.subscription_status = "ACTIVE"]
    [] h.kind = "scheduler" ->
         schedule_loop([row |-> row, paused |-> 0, resumed |-> 0, errors |-> 0,
                        calls |-> <<>>, origin |-> "none",
                        resumed_manual |-> FALSE],
                       1, h.month, FALSE,
                       [i \in 1..Len(plan_schedules) |-> h.o]).row

\* db.commit(): the UPDATE sets the columns whose value the handler changed.
commit_row(stored, loaded, new) ==
  [f \in DOMAIN stored |-> IF new[f] # loaded[f] THEN new[f] ELSE stored[f]]

\* db.query(Customer)...first() / .all()
load_customer(p) ==
  /\ handlers[p].pc = "start"
  /\ handlers' = [handlers EXCEPT ![p].pc = "loaded", ![p].row = customer]
  /\ UNCHANGED <<customer, pause_origin, last, charges, calc>>

commit(p) ==
  /\ handlers[p].pc = "loaded"
  /\ customer' = commit_row(customer, handlers[p].row,
                            handler_row(handlers[p], handlers[p].row))
  /\ handlers' = [handlers EXCEPT ![p].pc = "done"]
  /\ UNCHANGED <<pause_origin, last, charges, calc>>

\* Two handlers on one row; last.before keeps the row they start from.
HandlersInit ==
  /\ customer \in HandlerRows
  /\ handlers \in [1..2 -> HandlerStarts]
  /\ pause_origin = "none"
  /\ last = [op |-> "handlers", result |-> "ok", calls |-> <<>>,
             logged |-> 0, before |-> customer, request |-> NoRequest,
             one_time_orders |-> 0, run |-> NoRun]
  /\ charges = NoCharges
  /\ calc = NoCalc

HandlersNext ==
  \/ \E p \in DOMAIN handlers : load_customer(p)
  \/ \E p \in DOMAIN handlers : commit(p)

HandlersSpec == HandlersInit /\ [][HandlersNext]_vars

\* The three columns of a row the handlers may race on.
Observed(row) ==
  << row.failed_payment_attempts, row.subscription_status, row.subscription_active >>

\* C15: once two handlers that ran at the same time on one row have both
\* committed, failed_payment_attempts, subscription_status and
\* subscription_active are what one of the two serial orders of the same
\* handlers leaves.
C15_Serializable ==
  (/\ Len(handlers) = 2
   /\ \A p \in DOMAIN handlers : handlers[p].pc = "done")
  => Observed(customer) \in
       { Observed(handler_row(handlers[2], handler_row(handlers[1], last.before))),
         Observed(handler_row(handlers[1], handler_row(handlers[2], last.before))) }

(***************************************************************************)
(* The one-time charge of one logical attempt and its retries.             *)
(*                                                                         *)
(* The client sends a request with one-time add-ons; when the charge times *)
(* out it sends the same request again.  The gateway applies one charge    *)
(* per idempotency key it has not applied before.                          *)
(***************************************************************************)
\* tries of one logical attempt
MaxTries == 4

\* Variables the charge does not touch.
NoCustomer == None

NoLast == [op |-> "none"]

\* request.idempotency_key of ActivateSubscriptionRequest: absent or given.
\* ChangeSubscriptionRequest has no such field.
ClientKeys == {None, "key"}

\* uuid.uuid4().hex: the n-th value drawn, different from all drawn before
uuid4(n) == [src |-> "uuid4", n |-> n, hex |-> None]

\* The idempotency_key argument of process_payment, when n uuids were drawn
\* so far:  f"ot-addon-{request.idempotency_key or uuid.uuid4().hex}"  and
\* f"admin-ot-{uuid.uuid4().hex}"
idempotency_key(handler, client_key, n) ==
  IF handler = "activate_sub"
    THEN [prefix |-> "ot-addon-",
          suffix |-> IF client_key # None
                       THEN [src |-> "request", n |-> 0, hex |-> client_key]
                       ELSE uuid4(n + 1)]
    ELSE [prefix |-> "admin-ot-", suffix |-> uuid4(n + 1)]

\* One try: the handler sends the charge.  The gateway applies it when it
\* answers "ok" and, on a timeout, when the request reached it.
charge_one_time_addons ==
  /\ charges.handler # "none"
  /\ Len(charges.sent) < MaxTries
  /\ charges.outcome \in {"none", "timeout"}
  /\ \E o \in Outcomes :
     \E reached \in IF o = "timeout" THEN BOOLEAN ELSE {TRUE} :
       LET key == idempotency_key(charges.handler, charges.client_key, charges.uuids)
           applies == reached /\ o # "rejected"
       IN charges' = [charges EXCEPT
                        !.sent = Append(@, key),
                        !.uuids = IF key.suffix.src = "uuid4" THEN @ + 1 ELSE @,
                        !.applied = IF applies THEN @ \cup {key} ELSE @,
                        !.outcome = o]
  /\ UNCHANGED <<customer, pause_origin, last, handlers, calc>>

ChargesInit ==
  /\ \E handler \in {"activate_sub", "admin_change_subscription"} :
     \E client_key \in IF handler = "activate_sub" THEN ClientKeys ELSE {None} :
       charges = [handler |-> handler, client_key |-> client_key, uuids |-> 0,
                  sent |-> <<>>, applied |-> {}, outcome |-> "none"]
  /\ customer = NoCustomer
  /\ pause_origin = "none"
  /\ last = NoLast
  /\ handlers = NoHandlers
  /\ calc = NoCalc

ChargesNext == charge_one_time_addons

ChargesSpec == ChargesInit /\ [][ChargesNext]_vars

\* C16: every retry of a timed-out charge carries the idempotency key of
\* the first try, and the gateway applies at most one charge.
C16_RetryReusesKey ==
  charges.handler # "none" =>
    /\ \A i \in 1..Len(charges.sent) : charges.sent[i] = charges.sent[1]
    /\ Cardinality(charges.applied) <= 1

\* C17: after a successful activation or change of subscription the stored
\* selected_addons are the requested add-ons whose billing type is
\* recurring, and no one-time add-on is ever stored.
C17_StoresRecurringAddonsOnly ==
  /\ (/\ last.op \in {"activate_sub", "admin_change_subscription"}
      /\ last.result = "ok")
       => customer.selected_addons = recurring_addon_ids(last.request.addons)
  /\ \A a \in customer.selected_addons : ItemVariation[a] # "ONE_TIME"

\* C18: after the gateway has acknowledged an activation or a plan change
\* the customer is ACTIVE, subscription_active is true and the stored
\* plan_variation_id is the plan the gateway was asked to apply.
C18_AcknowledgedPlanIsStored ==
  (/\ last.op \in {"activate_sub", "admin_change_subscription", "change_plan"}
   /\ last.result = "ok")
  => /\ customer.subscription_status = "ACTIVE"
     /\ customer.subscription_active
     /\ customer.plan_variation_id = last.request.plan

\* The result of the wrapper behind a call of the given kind.
wrapper_result(kind, o) ==
  CASE kind = "pause" -> pause_subscription(o)
    [] kind = "resume" -> resume_subscription(o)
    [] kind = "charge" -> process_payment(o)
    [] kind = "cancel" -> cancel_subscription(o)
    [] kind = "create_subscription" -> create_subscription(o)
    [] kind = "update_subscription" -> update_subscription(o)

\* C19: for every call that timed out, the result its wrapper returned
\* differs, in what the caller can test, from the result the wrapper
\* returns when the gateway rejects the call.
C19_TimeoutDistinguishable ==
  \A i \in 1..Len(last.calls) :
    (last.calls[i].outcome = "timeout" /\ last.calls[i].kind # "create_order")
      => wrapper_result(last.calls[i].kind, "timeout")
           # wrapper_result(last.calls[i].kind, "rejected")

(***************************************************************************)
(* utils/subscription_scheduler.py: the start date of a new subscription   *)
(***************************************************************************)
\* Variant: the scan starts at the month after from_month.
check_month_exclusive(from_month, i) == ((from_month + i) % 12) + 1

\* `check_month = ((from_month - 1 + i) % 12) + 1`
check_month(from_month, i) == ((from_month - 1 + i) % 12) + 1

\* `for i in range(12)`, from index i on; from_month is the fallback
RECURSIVE scan_months(_, _, _)
scan_months(schedule, from_month, i) ==
  IF i = 12 THEN from_month
  ELSE IF is_month_active(schedule, check_month(from_month, i))
         THEN check_month(from_month, i)
         ELSE scan_months(schedule, from_month, i + 1)

get_next_active_month(schedule, from_month) == scan_months(schedule, from_month, 0)

\* `.first()` of a query without rows, and a start date of None.
NoSchedule == [plan_name |-> None]

NoDate == [year |-> None]

\* The lower-cased words of a schedule's name.
schedule_words(name) ==
  IF name = "ground control" THEN {"ground", "control"} ELSE {name}

\* `a ILIKE '%b%'`: a contains b, case-insensitively.  Names are sets of
\* lower-cased words; a name contains another when it has all its words.
ilike(a, b) == b \subseteq a

\* `filter(SubscriptionPlanSchedule.plan_name.ilike(f"%{plan_name}%")).first()`:
\* the first schedule whose name contains the plan's name, or None
get_schedule_for_plan(plan_name) ==
  LET found == {i \in 1..Len(plan_schedules) :
                  ilike(schedule_words(plan_schedules[i].plan_name), plan_name)}
  IN IF found = {} THEN NoSchedule
     ELSE plan_schedules[CHOOSE i \in found : \A j \in found : i <= j]

\* datetime(next_year, next_month, 1).strftime("%Y-%m-%d"): the three
\* fields of the string
strftime(year, month, day) == [year |-> year, month |-> month, day |-> day]

calculate_subscription_start_date(plan_name, signup_date) ==
  LET current_month == signup_date.month
      current_year == signup_date.year
      schedule == get_schedule_for_plan(plan_name)
  IN IF schedule = NoSchedule THEN NoDate
     ELSE IF is_month_active(schedule, current_month) THEN NoDate
     ELSE LET next_month == get_next_active_month(schedule, current_month)
              next_year == IF next_month < current_month
                             THEN current_year + 1 ELSE current_year
          IN strftime(next_year, next_month, 1)

(***************************************************************************)
(* utils/subscription_logic.py: the order assembler in full.  Money is in   *)
(* whole cents; a float holding dollars is modelled by the cents it is      *)
(* nearest to.                                                              *)
(***************************************************************************)
\* plan costs of the fee check, add-on subtotals of the one-time charge
MaxPlanCost == 12000

MaxOneTimeSubtotal == 3000

\* item_variations rows of type ADDON, in id order.
AddonRows == <<"AD_REC", "AD_ONE">>

\* Add-on ids a caller can pass: the known ones and one without a row.
RequestAddonIds == AddonIds \cup {"AD_UNKNOWN"}

\* The elements of a list.
Range(list) == {list[i] : i \in 1..Len(list)}

\* IEEE-754 binary64: the k in 0..700 for which (k / 100) * 100 evaluates
\* below k (4.1 * 100 is 409.99999999999994), so that int() gives k - 1.
Binary64Below ==
  {29, 57, 58, 113, 114, 115, 116, 201, 203, 205, 207, 226, 228, 230, 232,
   251, 253, 255, 402, 406, 410, 414, 427, 431, 435, 439, 452, 456, 460,
   464, 477, 481, 485, 489, 502, 506, 510}

\* `int(processing_fee * 100)` for the float nearest to fee / 100
int_times_100(fee) == IF fee \in Binary64Below THEN fee - 1 ELSE fee

\* `round((subtotal * 0.040) + 0.10, 2)`: 4 % of the subtotal plus ten
\* cents, to the nearest cent (a whole-cent subtotal gives no tie)
processing_fee(subtotal) == (4 * subtotal + 1000 + 50) \div 100

\* `db.query(ItemVariation).filter(item_type == "ADDON",
\*  variation_id.in_(addons)).all()`: the rows, each once, in id order
db_addons(addons) == SelectSeq(AddonRows, LAMBDA a : a \in Range(addons))

\* The live prices of the gateway's catalog for the ids asked.
get_catalog_prices(db, all_variation_ids) ==
  [v \in all_variation_ids \cap AddonIds |-> db.live[v]]

\* `for vid in addons`, from index i on
RECURSIVE add_prices(_, _, _, _, _)
add_prices(db, prices, addons, i, subtotal) ==
  IF i > Len(addons) THEN subtotal
  ELSE LET vid == addons[i]
           sq_price == IF vid \in DOMAIN prices THEN prices[vid] ELSE 0
           found == vid \in Range(db_addons(addons))
       IN add_prices(db, prices, addons, i + 1,
            IF sq_price > 0 THEN subtotal + sq_price
            ELSE IF found THEN subtotal + db.stored[vid]
            ELSE subtotal)

\* db: whether the PLAN item of the plan's name exists, the plan's cost,
\* and the stored and the live price of each add-on row.
prepare_order(db, plan_variation_id, addons) ==
  IF plan_variation_id \notin PlanVariationIds
    THEN [success |-> FALSE, error |-> "plan"]
  ELSE IF ~db.plan_item
    THEN [success |-> FALSE, error |-> "plan item"]
  ELSE
    LET rows == db_addons(addons)
        items == <<[catalog_object_id |-> plan_variation_id]>>
                   \o [i \in 1..Len(rows) |-> [catalog_object_id |-> rows[i]]]
        prices == get_catalog_prices(db, {plan_variation_id} \cup Range(rows))
        subtotal == add_prices(db, prices, addons, 1, db.plan_cost)
        fee == processing_fee(subtotal)
        processing_fee_cents == int_times_100(fee)
    IN [success |-> TRUE,
        line_items |-> items \o <<[catalog_object_id |-> "FEE",
                                   amount |-> processing_fee_cents]>>,
        subtotal |-> subtotal,
        processing_fee |-> fee,
        total_amount |-> subtotal + fee]

(***************************************************************************)
(* The immediate charge of one-time add-ons: routers/payment.py            *)
(* activate_sub, routers/admin.py admin_change_subscription, and           *)
(* process_payment of utils/square_client.py.                              *)
(***************************************************************************)
\* IEEE-754 binary64: the whole-cent subtotals s in 0..3100 for which
\* (s + (s * 0.040 + 0.10)) * 100, computed on dollars, evaluates below the
\* whole number of cents it stands for.
Binary64BelowTotal == {425, 875, 1600, 1775, 1825}

\* `ot_final_amount = ot_subtotal + (ot_subtotal * 0.040) + 0.10` and
\* `amount_cents = int(amount * 100)`: the fraction of a cent is cut off
amount_cents(ot_subtotal) ==
  ((104 * ot_subtotal + 1000) \div 100)
    - (IF ot_subtotal \in Binary64BelowTotal THEN 1 ELSE 0)

(***************************************************************************)
(* Pure functions, applied to arguments drawn from bounded sets.           *)
(***************************************************************************)
\* calc.result once the function was applied
apply_is_month_active ==
  /\ calc.fn = "is_month_active"
  /\ ~calc.done
  /\ calc' = [calc EXCEPT !.done = TRUE,
                          !.result = is_month_active(calc.schedule, calc.month)]
  /\ UNCHANGED <<customer, pause_origin, last, handlers, charges>>

apply_get_next_active_month ==
  /\ calc.fn = "get_next_active_month"
  /\ ~calc.done
  /\ calc' = [calc EXCEPT !.done = TRUE,
                          !.result = get_next_active_month(calc.schedule,
                                                           calc.from_month)]
  /\ UNCHANGED <<customer, pause_origin, last, handlers, charges>>

apply_calculate_subscription_start_date ==
  /\ calc.fn = "calculate_subscription_start_date"
  /\ ~calc.done
  /\ calc' = [calc EXCEPT !.done = TRUE,
                          !.result = calculate_subscription_start_date(
                                       calc.plan_name, calc.signup_date)]
  /\ UNCHANGED <<customer, pause_origin, last, handlers, charges>>

apply_prepare_order ==
  /\ calc.fn = "prepare_subscription_order_items"
  /\ ~calc.done
  /\ calc' = [calc EXCEPT !.done = TRUE,
                          !.result = prepare_order(calc.db,
                                       calc.plan_variation_id, calc.addons)]
  /\ UNCHANGED <<customer, pause_origin, last, handlers, charges>>

apply_amount_cents ==
  /\ calc.fn = "process_payment"
  /\ ~calc.done
  /\ calc' = [calc EXCEPT !.done = TRUE,
                          !.result = amount_cents(calc.ot_subtotal)]
  /\ UNCHANGED <<customer, pause_origin, last, handlers, charges>>

\* Prices of an add-on: none stored or 15.00 stored, none live or 25.00 live.
StoredPrices == {0, 1500}

LivePrices == {0, 2500}

\* Lists of at most two add-on ids, repeats included.
AddonLists ==
  {<<>>} \cup {<<a>> : a \in RequestAddonIds}
         \cup {<<a, b>> : a \in RequestAddonIds, b \in RequestAddonIds}

\* Catalogs: every plan cost with no add-on priced, or a fixed plan cost
\* with every pricing of the add-ons.
Catalogs ==
  [plan_item : {TRUE}, plan_cost : 0..MaxPlanCost,
   stored : {[a \in AddonIds |-> 0]}, live : {[a \in AddonIds |-> 0]}]
  \cup
  [plan_item : BOOLEAN, plan_cost : {10000},
   stored : [AddonIds -> StoredPrices], live : [AddonIds -> LivePrices]]

\* Schedules with both bounds in 1..12.
Schedules ==
  [plan_name : {"any"}, start_month : Months, end_month : Months]

\* Plan names a subscription_plans row can carry: the names of the plans
\* on sale, a plan named as its schedule is, and a plan without a schedule.
PlanNames ==
  {SubscriptionPlan[v] : v \in PlanVariationIds}
    \cup {{"turf"}, {"ground", "control"}, {"lawn"}}

\* datetime.now() at signup
SignupDates == [year : {2025, 2026}, month : Months, day : {1, 15, 28}]

FnInit ==
  /\ \/ \E schedule \in Schedules, month \in Months :
          calc = [fn |-> "is_month_active", schedule |-> schedule,
                  month |-> month, done |-> FALSE, result |-> FALSE]
     \/ \E schedule \in Schedules, from_month \in Months :
          calc = [fn |-> "get_next_active_month", schedule |-> schedule,
                  from_month |-> from_month, done |-> FALSE, result |-> 0]
     \/ \E plan_name \in PlanNames, signup_date \in SignupDates :
          calc = [fn |-> "calculate_subscription_start_date",
                  plan_name |-> plan_name, signup_date |-> signup_date,
                  done |-> FALSE, result |-> NoDate]
     \/ \E db \in Catalogs, plan_variation_id \in RequestPlans,
           addons \in AddonLists :
          /\ db.plan_cost # 10000 => (addons = <<>> /\ plan_variation_id = "PV_TURF")
          /\ calc = [fn |-> "prepare_subscription_order_items", db |-> db,
                     plan_variation_id |-> plan_variation_id,
                     addons |-> addons, done |-> FALSE,
                     result |-> [success |-> FALSE]]
     \/ \E ot_subtotal \in 0..MaxOneTimeSubtotal :
          calc = [fn |-> "process_payment", ot_subtotal |-> ot_subtotal,
                  done |-> FALSE, result |-> 0]
  /\ customer = NoCustomer
  /\ pause_origin = "none"
  /\ last = NoLast
  /\ handlers = NoHandlers
  /\ charges = NoCharges

FnNext ==
  \/ apply_is_month_active
  \/ apply_get_next_active_month
  \/ apply_calculate_subscription_start_date
  \/ apply_prepare_order
  \/ apply_amount_cents

FnSpec == FnInit /\ [][FnNext]_vars

\* C20: for start_month, end_month and month in 1..12, is_month_active is
\* true iff start <= month <= end when start <= end, and iff month >= start
\* or month <= end when start > end; the schedule (11, 2) is active in
\* exactly 11, 12, 1 and 2.  The active months are those met walking from
\* start_month forward to end_month.
C20_IsMonthActive ==
  (calc.fn = "is_month_active" /\ calc.done) =>
    LET start == calc.schedule.start_month
        end == calc.schedule.end_month
        walk == {((start - 1 + k) % 12) + 1 : k \in 0..((end - start) % 12)}
    IN /\ start <= end => (calc.result <=> (start <= calc.month /\ calc.month <= end))
       /\ start > end => (calc.result <=> (calc.month >= start \/ calc.month <= end))
       /\ calc.result <=> calc.month \in walk
       /\ (start = 11 /\ end = 2) => (calc.result <=> calc.month \in {11, 12, 1, 2})

\* The schedule (11, 2) was found active in December.
C20_Witness ==
  /\ calc.fn = "is_month_active"
  /\ calc.done
  /\ calc.schedule.start_month = 11
  /\ calc.schedule.end_month = 2
  /\ calc.month = 12
  /\ calc.result

(***************************************************************************)
(* Invariants of the customers row.                                        *)
(***************************************************************************)
\* C26: in every reachable state a counter that reached the threshold goes
\* with the status SUSPENDED: no operation takes the customer out of
\* SUSPENDED and leaves the counter at three or more.
C26_CounterAtThresholdMeansSuspended ==
  customer.failed_payment_attempts >= SuspendThreshold
    => customer.subscription_status = "SUSPENDED"

C28_StatusFieldsAgree ==
  customer.subscription_active
    <=> customer.subscription_status \in {"ACTIVE", "PAUSED"}

\* The months met walking forward from from_month before month m is met.
MonthsBefore(from_month, m) ==
  {((from_month - 1 + k) % 12) + 1 : k \in 0..(((m - from_month) % 12) - 1)}

schedule_of_plan(plan_name) ==
  LET found == {i \in 1..Len(plan_schedules) :
                  ilike(plan_name, schedule_words(plan_schedules[i].plan_name))}
  IN IF found = {} THEN NoSchedule
     ELSE plan_schedules[CHOOSE i \in found : \A j \in found : i <= j]

\* C22: calculate_subscription_start_date returns null exactly when the
\* plan has no schedule or the signup month is active for it; otherwise it
\* returns the first day of the next active month, in the signup year when
\* that month is later than the signup month and in the following year
\* when it is earlier, a date strictly after the signup date and less than
\* twelve months after it.
C22_StartDate ==
  (calc.fn = "calculate_subscription_start_date" /\ calc.done) =>
    LET schedule == schedule_of_plan(calc.plan_name)
        signup == calc.signup_date
        immediate == \/ schedule = NoSchedule
                     \/ is_month_active(schedule, signup.month)
    IN /\ calc.result = NoDate <=> immediate
       /\ ~immediate =>
            LET next_month == get_next_active_month(schedule, signup.month)
                months == 12 * (calc.result.year - signup.year)
                            + (calc.result.month - signup.month)
            IN /\ calc.result.day = 1
               /\ calc.result.month = next_month
               /\ next_month > signup.month => calc.result.year = signup.year
               /\ next_month < signup.month => calc.result.year = signup.year + 1
               /\ months >= 1
               /\ months < 12

\* The assembler was applied and succeeded.
Assembled ==
  /\ calc.fn = "prepare_subscription_order_items"
  /\ calc.done
  /\ calc.result.success

\* The line items of add-ons in an assembled order.
AddonItems ==
  {i \in 1..Len(calc.result.line_items) :
     calc.result.line_items[i].catalog_object_id \in RequestAddonIds}

\* C23: for every subtotal the assembler's processing fee is the subtotal's
\* 4 % plus ten cents to the nearest cent, the amount on the fee line item
\* is that fee in cents, and total_amount is subtotal plus fee; a subtotal
\* of 100.00 gives a fee of 4.10, 410 cents on the fee line and a total of
\* 104.10.
C23_ProcessingFee ==
  Assembled =>
    LET r == calc.result
        fee_item == r.line_items[Len(r.line_items)]
        exact == 4 * r.subtotal + 1000
    IN /\ 100 * r.processing_fee - exact \in -50..50
       /\ fee_item.catalog_object_id = "FEE"
       /\ fee_item.amount = r.processing_fee
       /\ r.total_amount = r.subtotal + r.processing_fee
       /\ r.subtotal = 10000 =>
            (r.processing_fee = 410 /\ fee_item.amount = 410
               /\ r.total_amount = 10410)

\* C24: the assembler fails, with no line items, if the plan variation,
\* the plan's order item or any requested add-on id is not in the catalog;
\* when it succeeds the order has one line item for the plan, one for each
\* requested add-on id and one fee line item.
C24_FailFast ==
  (calc.fn = "prepare_subscription_order_items" /\ calc.done) =>
    LET resolvable ==
          /\ calc.plan_variation_id \in PlanVariationIds
          /\ calc.db.plan_item
          /\ Range(calc.addons) \subseteq AddonIds
    IN /\ calc.result.success <=> resolvable
       /\ ~calc.result.success => "line_items" \notin DOMAIN calc.result
       /\ calc.result.success =>
            /\ Len(calc.result.line_items) = 1 + Len(calc.addons) + 1
            /\ \A a \in Range(calc.addons) :
                 \E i \in AddonItems :
                   calc.result.line_items[i].catalog_object_id = a

\* C25: the price the assembler adds for a requested add-on is the price
\* stored in the local catalog; the live price is added only when the
\* stored price is zero.
C25_StoredPriceFirst ==
  (Assembled /\ Len(calc.addons) = 1 /\ calc.addons[1] \in AddonIds) =>
    LET a == calc.addons[1]
        added == calc.result.subtotal - calc.db.plan_cost
    IN added = IF calc.db.stored[a] # 0 THEN calc.db.stored[a]
               ELSE calc.db.live[a]

\* The price the assembler uses for an add-on row.
price_of(db, a) == IF db.live[a] > 0 THEN db.live[a] ELSE db.stored[a]

RECURSIVE sum_items(_, _)
sum_items(db, items) ==
  IF items = {} THEN 0
  ELSE LET i == CHOOSE j \in items : TRUE
       IN price_of(db, calc.result.line_items[i].catalog_object_id)
            + sum_items(db, items \ {i})

\* C30: in every successful result the subtotal is the plan cost plus the
\* prices of exactly the add-ons that are line items of the order, for
\* every list of add-on ids, unknown and repeated ids included.
C30_SubtotalMatchesLineItems ==
  Assembled =>
    calc.result.subtotal = calc.db.plan_cost + sum_items(calc.db, AddonItems)

\* C29: for every one-time subtotal in whole cents, the cents sent to the
\* gateway for the immediate charge are the subtotal plus the fee of the
\* assembler's formula, 4 % plus ten cents to the nearest cent.
C29_OneTimeFeeAgrees ==
  (calc.fn = "process_payment" /\ calc.done) =>
    calc.result = calc.ot_subtotal + processing_fee(calc.ot_subtotal)

====
